---- MODULE Spec2Model ----
(***************************************************************************)
(* News summarizer (summarizer.py): the per-article pipeline               *)
(* NewsSummarizer.summarize_article, the sequential batch loop             *)
(* NewsSummarizer.process_articles and the bounded-concurrency batch       *)
(* AsyncNewsSummarizer.process_articles_async.                             *)
(*                                                                         *)
(* A provider call (ask_openai / ask_cohere) either returns a text or      *)
(* raises an exception; the exception is a Backend error or a              *)
(* Configuration error.  Both are subclasses of Exception.                 *)
(***************************************************************************)
EXTENDS Integers, Sequences, FiniteSets, TLC

\* ---------------------------------------------------------------- bounds
MaxArticles == 3
MaxConcurrent == 2
MaxScripted == 2
MaxThreads == 2
MaxRequests == 2
MaxTime == 5

\* content[:500]
ContentLimit == 500

\* Config.OPENAI_RPM, Config.COHERE_RPM
OPENAI_RPM == 500
COHERE_RPM == 100

VARIABLES
    articles,       \* the input list of article records
    max_concurrent, \* argument of process_articles_async
    script,         \* mocked provider outcomes per article (empty: unscripted)
    todo,           \* batch runs still to be made by the main program
    main,           \* "idle" | "seq" | "seqReturned" | "async" | "asyncReturned"
    cur,            \* loop index of process_articles
    results,        \* the list process_articles is building / has returned
    asyncResults,   \* the list process_articles_async returned
    stage,          \* per article: position inside summarize_article
    summary,        \* per article: local variable summary
    sentiment,      \* per article: local variable sentiment
    returned,       \* per article: the dict summarize_article returned
    raised,         \* per article: exception that left summarize_article
    calls,          \* per article: the provider calls made for it, in order
    printed,        \* per article: the failure messages printed about it
    task,           \* per article: state of its process_with_semaphore task
    semValue,       \* semaphore._value
    semWaiters,     \* semaphore._waiters (FIFO)
    overtaken,      \* history: a task has ended before one created earlier
    now,            \* the clock, in ticks
    worker,         \* per thread: where it is inside a gateway call
    rate_lock,      \* per provider: the thread inside its spacing section (0: none)
    last_call,      \* per provider: time of the last admitted call
    tracker_lock,   \* the thread inside track_request (0: none)
    requests,       \* CostTracker.requests, the log
    total_cost,     \* CostTracker.total_cost
    started,        \* history: gateway calls begun
    completed,      \* history: track_request calls that have returned
    budget          \* the last check_budget call: ceiling, total it saw, outcome

vars == <<articles, max_concurrent, script, todo, main, cur, results,
          asyncResults, stage, summary, sentiment, returned, raised, calls,
          printed, task, semValue, semWaiters, overtaken, now, worker,
          rate_lock, last_call, tracker_lock, requests, total_cost,
          started, completed, budget>>

\* ------------------------------------------------------------ data model
Titles == <<"title1", "title2", "title3", "title4", "title5">>
Urls == <<"url1", "url2", "url3", "url4", "url5">>

Article(i) ==
    [title |-> Titles[i], description |-> "description", content |-> [k \in 1..i |-> "word"],
     url |-> Urls[i], source |-> "source", published_at |-> "date"]

Min(a, b) == IF a < b THEN a ELSE b

\* article['content'][:500]
Truncate(content) == SubSeq(content, 1, Min(Len(content), ContentLimit))

\* article_text, lines 17-19
ArticleText(article) ==
    <<"Title:", article.title, "Description:", article.description, "Content:">>
        \o Truncate(article.content)

\* summary_prompt, lines 24-26
SummaryPrompt(article) == <<"Summarize this news article in 2-3 sentences:">> \o ArticleText(article)

\* sentiment_prompt, lines 37-44
SentimentPrompt(text) == <<"Analyze the sentiment of this text:">> \o text

\* The text a provider returns for a prompt.
Reply(provider, prompt) == <<provider>> \o prompt

NoText == <<>>
Placeholder == <<"Unable to analyze sentiment">>

NoError == "none"
ErrorKinds == {"Backend", "Configuration"}
Outcomes == {"ok"} \cup ErrorKinds
Calls == {"openai_summary", "cohere_summary", "cohere_sentiment"}

\* The mocked outcomes of one article's calls.  A call that is never made
\* (the fallback after a primary success, the sentiment call after a double
\* summary failure) has no outcome to tell scripts apart by: it is "ok".
Scripts ==
    {s \in [Calls -> Outcomes] :
        /\ s["openai_summary"] = "ok" => s["cohere_summary"] = "ok"
        /\ s["cohere_summary"] # "ok" => s["cohere_sentiment"] = "ok"}

\* Outcomes a provider call of article i may have: the scripted one when the
\* providers are mocked, any otherwise.
Responses(i, call) == IF i \in DOMAIN script THEN {script[i][call]} ELSE Outcomes

N == Len(articles)
Idx == 1..N

\* The dict returned at lines 51-58.
SummaryResult(article, sum, sent) ==
    [title |-> article.title, source |-> article.source, url |-> article.url,
     summary |-> sum, sentiment |-> sent, published_at |-> article.published_at]

NoResult == SummaryResult([title |-> "", source |-> "", url |-> "", published_at |-> ""], NoText, NoText)

\* One provider call as the provider saw it: it returned a text ("ok") or
\* it raised ("error").
CallRecord(provider, prompt, outcome) ==
    [provider |-> provider, prompt |-> prompt,
     outcome |-> IF outcome = "ok" THEN "ok" ELSE "error",
     text |-> IF outcome = "ok" THEN Reply(provider, prompt) ELSE NoText]

\* ------------------------------------------------- the provider gateway
\* LLMProviders and CostTracker (llm_providers.py), as the design describes
\* them: per-provider call spacing, the backend call, cost tracking.
Providers == {"openai", "cohere"}
Threads == 1..MaxThreads
GatewayVars == <<now, worker, rate_lock, last_call, tracker_lock,
                 requests, total_cost, started, completed, budget>>

Rpm(p) == IF p = "openai" THEN OPENAI_RPM ELSE COHERE_RPM

\* One tick of the clock is the shortest interval, 60 / OPENAI_RPM seconds.
TicksPerMinute == OPENAI_RPM

\* openai_interval, cohere_interval: 60 / requests_per_minute, in ticks.
Interval(p) == TicksPerMinute \div Rpm(p)

\* The clock starts late enough for a first call to find its interval over.
StartTime == Interval("cohere")

\* Config.OPENAI_MODEL, Config.COHERE_MODEL
Model(p) == IF p = "openai" THEN "gpt-4o-mini" ELSE "command-a-03-2025"

\* Price table: cost per 1K input tokens and per 1K output tokens, in
\* millionths of a dollar.
PriceIn(p) == IF p = "openai" THEN 150 ELSE 2500
PriceOut(p) == IF p = "openai" THEN 600 ELSE 10000

\* Token counts of a request: (input, output).
TokenCounts == {<<100, 500>>}

\* cost = input_tokens / 1000 * in_rate + output_tokens / 1000 * out_rate,
\* kept exact: in thousandths of a millionth of a dollar.
Cost(p, input_tokens, output_tokens) == input_tokens * PriceIn(p) + output_tokens * PriceOut(p)

PricedRequest(p, input_tokens, output_tokens) ==
    [provider |-> p, model |-> Model(p), input_tokens |-> input_tokens,
     output_tokens |-> output_tokens, cost |-> Cost(p, input_tokens, output_tokens)]

NoRequest == [provider |-> "", model |-> "", input_tokens |-> 0, output_tokens |-> 0, cost |-> 0]

\* Ceilings check_budget is called with: the cost of one request.
Ceilings == {Cost(p, tk[1], tk[2]) : p \in Providers, tk \in TokenCounts}

IdleWorker == [pc |-> "idle", provider |-> "", wake |-> 0, pending |-> NoRequest, seen |-> 0]

NoBudget == [ceiling |-> 0, outcome |-> "none"]

GatewayFresh ==
    /\ now = StartTime
    /\ worker = [t \in Threads |-> IdleWorker]
    /\ rate_lock = [p \in Providers |-> 0]
    /\ last_call = [p \in Providers |-> 0]
    /\ tracker_lock = 0
    /\ requests = <<>>
    /\ total_cost = 0
    /\ started = 0
    /\ completed = 0
    /\ budget = NoBudget

\* ------------------------------------------------------- initial states
Fresh(n) ==
    /\ cur = 1
    /\ results = <<>>
    /\ asyncResults = <<>>
    /\ stage = [i \in 1..n |-> "idle"]
    /\ summary = [i \in 1..n |-> NoText]
    /\ sentiment = [i \in 1..n |-> NoText]
    /\ returned = [i \in 1..n |-> NoResult]
    /\ raised = [i \in 1..n |-> NoError]
    /\ calls = [i \in 1..n |-> <<>>]
    /\ printed = [i \in 1..n |-> {}]
    /\ task = [i \in 1..n |-> "none"]
    /\ semValue = 0
    /\ semWaiters = <<>>
    /\ overtaken = FALSE
    /\ GatewayFresh

\* One batch run, sequential or concurrent, against live providers.
Init ==
    /\ \E n \in 0..MaxArticles : articles = [i \in 1..n |-> Article(i)] /\ Fresh(n)
    /\ max_concurrent = 0
    /\ script = <<>>
    /\ todo \in {<<"seq">>, <<"async">>}
    /\ main = "idle"

\* The main program of lines 125-146 against mocked providers: the
\* sequential run, then the concurrent run, over the same articles.
InitEq ==
    /\ \E n \in 0..MaxScripted :
          /\ articles = [i \in 1..n |-> Article(i)]
          /\ Fresh(n)
          /\ script \in [1..n -> Scripts]
    /\ max_concurrent = 0
    /\ todo = <<"seq", "async">>
    /\ main = "idle"

\* ------------------------------------------- summarize_article (13-58)
PipelineVars == <<stage, summary, sentiment, returned, raised, calls, printed>>
SeqVars == <<cur, results>>
AsyncVars == <<asyncResults, task, semValue, semWaiters, max_concurrent, overtaken>>
\* What no step of a batch changes in this model: its input and the
\* internals of the gateway, which the batch specifications leave out.
InputVars == <<articles, script, GatewayVars>>
OrchestratorVars == <<InputVars, todo, main, SeqVars, AsyncVars>>

\* Variant of lines 22-31 that writes into the article dict it was given
\* (it replaces the description once the article is summarized).
CallPrimaryAnnotates(i) ==
    /\ stage[i] = "primary"
    /\ \E o \in Responses(i, "openai_summary") :
          /\ calls' = [calls EXCEPT ![i] = Append(@, CallRecord("openai", SummaryPrompt(articles[i]), o))]
          /\ IF o = "ok"
                THEN /\ summary' = [summary EXCEPT ![i] = Reply("openai", SummaryPrompt(articles[i]))]
                     /\ articles' = [articles EXCEPT ![i].description = "summarized"]
                     /\ stage' = [stage EXCEPT ![i] = "sentiment"]
                     /\ printed' = printed
                ELSE /\ printed' = [printed EXCEPT ![i] = @ \cup {"OpenAI summarization failed"}]
                     /\ stage' = [stage EXCEPT ![i] = "fallback"]
                     /\ UNCHANGED <<summary, articles>>
    /\ UNCHANGED <<sentiment, returned, raised, script, GatewayVars, todo, main, SeqVars, AsyncVars>>

\* Variant of lines 22-32 with the fallback call after the try statement
\* instead of inside its except clause: it is made on both paths.
CallPrimaryThenFallback(i) ==
    /\ stage[i] = "primary"
    /\ \E o \in Responses(i, "openai_summary") :
          /\ calls' = [calls EXCEPT ![i] = Append(@, CallRecord("openai", SummaryPrompt(articles[i]), o))]
          /\ IF o = "ok"
                THEN /\ summary' = [summary EXCEPT ![i] = Reply("openai", SummaryPrompt(articles[i]))]
                     /\ printed' = printed
                ELSE /\ printed' = [printed EXCEPT ![i] = @ \cup {"OpenAI summarization failed"}]
                     /\ summary' = summary
    /\ stage' = [stage EXCEPT ![i] = "fallback"]
    /\ UNCHANGED <<sentiment, returned, raised, OrchestratorVars>>

\* Lines 22-31: the primary summary call and its except clause.
CallPrimary(i) ==
    /\ stage[i] = "primary"
    /\ \E o \in Responses(i, "openai_summary") :
          /\ calls' = [calls EXCEPT ![i] = Append(@, CallRecord("openai", SummaryPrompt(articles[i]), o))]
          /\ IF o = "ok"
                THEN /\ summary' = [summary EXCEPT ![i] = Reply("openai", SummaryPrompt(articles[i]))]
                     /\ stage' = [stage EXCEPT ![i] = "sentiment"]
                     /\ printed' = printed
                ELSE \* except Exception as e: every error kind is caught
                     /\ printed' = [printed EXCEPT ![i] = @ \cup {"OpenAI summarization failed"}]
                     /\ stage' = [stage EXCEPT ![i] = "fallback"]
                     /\ summary' = summary
    /\ UNCHANGED <<sentiment, returned, raised, OrchestratorVars>>

\* Variant of line 32 that calls the fallback without assigning its text.
CallFallbackDiscards(i) ==
    /\ stage[i] = "fallback"
    /\ \E o \in Responses(i, "cohere_summary") :
          /\ calls' = [calls EXCEPT ![i] = Append(@, CallRecord("cohere", SummaryPrompt(articles[i]), o))]
          /\ IF o = "ok"
                THEN /\ stage' = [stage EXCEPT ![i] = "sentiment"]
                     /\ raised' = raised
                ELSE /\ raised' = [raised EXCEPT ![i] = o]
                     /\ stage' = [stage EXCEPT ![i] = "raised"]
    /\ UNCHANGED <<summary, sentiment, returned, printed, OrchestratorVars>>

\* Variant of line 32 inside a try block that substitutes a fixed text.
CallFallbackSubstitutes(i) ==
    /\ stage[i] = "fallback"
    /\ \E o \in Responses(i, "cohere_summary") :
          /\ calls' = [calls EXCEPT ![i] = Append(@, CallRecord("cohere", SummaryPrompt(articles[i]), o))]
          /\ summary' = [summary EXCEPT ![i] =
                            IF o = "ok" THEN Reply("cohere", SummaryPrompt(articles[i]))
                                        ELSE <<"Unable to summarize">>]
    /\ stage' = [stage EXCEPT ![i] = "sentiment"]
    /\ UNCHANGED <<raised, sentiment, returned, printed, OrchestratorVars>>

\* Line 32: the fallback summary call, outside any try block.
CallFallback(i) ==
    /\ stage[i] = "fallback"
    /\ \E o \in Responses(i, "cohere_summary") :
          /\ calls' = [calls EXCEPT ![i] = Append(@, CallRecord("cohere", SummaryPrompt(articles[i]), o))]
          /\ IF o = "ok"
                THEN /\ summary' = [summary EXCEPT ![i] = Reply("cohere", SummaryPrompt(articles[i]))]
                     /\ stage' = [stage EXCEPT ![i] = "sentiment"]
                     /\ raised' = raised
                ELSE /\ raised' = [raised EXCEPT ![i] = o]
                     /\ stage' = [stage EXCEPT ![i] = "raised"]
                     /\ summary' = summary
    /\ UNCHANGED <<sentiment, returned, printed, OrchestratorVars>>

\* Variant of lines 35-58 without the try block around the sentiment call.
CallSentimentUncaught(i) ==
    /\ stage[i] = "sentiment"
    /\ \E o \in Responses(i, "cohere_sentiment") :
          /\ calls' = [calls EXCEPT ![i] = Append(@, CallRecord("cohere", SentimentPrompt(summary[i]), o))]
          /\ IF o = "ok"
                THEN /\ sentiment' = [sentiment EXCEPT ![i] = Reply("cohere", SentimentPrompt(summary[i]))]
                     /\ returned' = [returned EXCEPT ![i] =
                                        SummaryResult(articles[i], summary[i], Reply("cohere", SentimentPrompt(summary[i])))]
                     /\ stage' = [stage EXCEPT ![i] = "returned"]
                     /\ raised' = raised
                ELSE /\ raised' = [raised EXCEPT ![i] = o]
                     /\ stage' = [stage EXCEPT ![i] = "raised"]
                     /\ UNCHANGED <<sentiment, returned>>
    /\ UNCHANGED <<summary, printed, OrchestratorVars>>

\* Variant of lines 35-58 whose sentiment prompt quotes the article text
\* instead of the summary.
CallSentimentFromArticle(i) ==
    /\ stage[i] = "sentiment"
    /\ \E o \in Responses(i, "cohere_sentiment") :
          /\ calls' = [calls EXCEPT ![i] =
                          Append(@, CallRecord("cohere", SentimentPrompt(ArticleText(articles[i])), o))]
          /\ LET sent == IF o = "ok" THEN Reply("cohere", SentimentPrompt(ArticleText(articles[i])))
                                     ELSE Placeholder
             IN  /\ sentiment' = [sentiment EXCEPT ![i] = sent]
                 /\ returned' = [returned EXCEPT ![i] = SummaryResult(articles[i], summary[i], sent)]
          /\ printed' = [printed EXCEPT ![i] =
                            IF o = "ok" THEN @ ELSE @ \cup {"Cohere sentiment analysis failed"}]
    /\ stage' = [stage EXCEPT ![i] = "returned"]
    /\ UNCHANGED <<summary, raised, OrchestratorVars>>

\* Lines 35-58: the sentiment call, its except clause, and the return.
CallSentiment(i) ==
    /\ stage[i] = "sentiment"
    /\ \E o \in Responses(i, "cohere_sentiment") :
          /\ calls' = [calls EXCEPT ![i] = Append(@, CallRecord("cohere", SentimentPrompt(summary[i]), o))]
          /\ LET sent == IF o = "ok" THEN Reply("cohere", SentimentPrompt(summary[i])) ELSE Placeholder
             IN  /\ sentiment' = [sentiment EXCEPT ![i] = sent]
                 /\ returned' = [returned EXCEPT ![i] = SummaryResult(articles[i], summary[i], sent)]
          /\ printed' = [printed EXCEPT ![i] =
                            IF o = "ok" THEN @ ELSE @ \cup {"Cohere sentiment analysis failed"}]
    /\ stage' = [stage EXCEPT ![i] = "returned"]
    /\ UNCHANGED <<summary, raised, OrchestratorVars>>

\* ----------------------------------------------- process_articles (60-69)
\* Line 62, entered from the main program.
ProcessArticles ==
    /\ main \in {"idle", "seqReturned", "asyncReturned"}
    /\ todo # <<>> /\ Head(todo) = "seq"
    /\ todo' = Tail(todo)
    /\ main' = "seq"
    /\ cur' = 1
    /\ results' = <<>>
    /\ stage' = [i \in Idx |-> "idle"]
    /\ summary' = [i \in Idx |-> NoText]
    /\ sentiment' = [i \in Idx |-> NoText]
    /\ returned' = [i \in Idx |-> NoResult]
    /\ raised' = [i \in Idx |-> NoError]
    /\ calls' = [i \in Idx |-> <<>>]
    /\ printed' = [i \in Idx |-> {}]
    /\ UNCHANGED <<InputVars, AsyncVars>>

\* Lines 63-65: the loop takes the next article and calls summarize_article.
SeqCall ==
    /\ main = "seq"
    /\ cur <= N
    /\ stage[cur] = "idle"
    /\ stage' = [stage EXCEPT ![cur] = "primary"]
    /\ UNCHANGED <<InputVars, todo, main, SeqVars, AsyncVars, summary, sentiment,
                   returned, raised, calls, printed>>

\* Variant of line 66 that rebinds the list instead of appending to it.
SeqAppendOverwrites ==
    /\ main = "seq"
    /\ cur <= N
    /\ stage[cur] = "returned"
    /\ results' = <<returned[cur]>>
    /\ cur' = cur + 1
    /\ UNCHANGED <<InputVars, todo, main, AsyncVars, PipelineVars>>

\* Line 66.
SeqAppend ==
    /\ main = "seq"
    /\ cur <= N
    /\ stage[cur] = "returned"
    /\ results' = Append(results, returned[cur])
    /\ cur' = cur + 1
    /\ UNCHANGED <<InputVars, todo, main, AsyncVars, PipelineVars>>

\* Variant of lines 67-68 that leaves the loop at the first failure.
SeqExceptAborts ==
    /\ main = "seq"
    /\ cur <= N
    /\ stage[cur] = "raised"
    /\ printed' = [printed EXCEPT ![cur] = @ \cup {"Failed to process article"}]
    /\ cur' = N + 1
    /\ UNCHANGED <<InputVars, todo, main, AsyncVars, results, stage, summary, sentiment,
                   returned, raised, calls>>

\* Lines 67-68: except Exception as e: print, and go on with the loop.
SeqExcept ==
    /\ main = "seq"
    /\ cur <= N
    /\ stage[cur] = "raised"
    /\ printed' = [printed EXCEPT ![cur] = @ \cup {"Failed to process article"}]
    /\ cur' = cur + 1
    /\ UNCHANGED <<InputVars, todo, main, AsyncVars, results, stage, summary, sentiment,
                   returned, raised, calls>>

\* Line 69.
SeqReturn ==
    /\ main = "seq"
    /\ cur = N + 1
    /\ main' = "seqReturned"
    /\ UNCHANGED <<InputVars, todo, SeqVars, AsyncVars, PipelineVars>>

\* --------------------------------- process_articles_async (108-120)
\* Variant of the release that gives the slot back to the counter and
\* wakes no waiting task.
ReleaseWakesNobody(t) ==
    /\ semValue' = semValue + 1
    /\ semWaiters' = semWaiters
    /\ task' = t

\* Line 113, leaving "async with semaphore" (asyncio.Semaphore.release):
\* the slot goes to the longest waiting task if there is one, else back
\* to the counter.  t is the task table after the releasing task ended.
Release(t) ==
    IF semWaiters # <<>>
        THEN /\ task' = [t EXCEPT ![Head(semWaiters)] = "woken"]
             /\ semWaiters' = Tail(semWaiters)
             /\ semValue' = semValue
        ELSE /\ semValue' = semValue + 1
             /\ semWaiters' = semWaiters
             /\ task' = t

\* Lines 110, 116-117: the semaphore, one task per article, gather.
ProcessArticlesAsync ==
    /\ main \in {"idle", "seqReturned", "asyncReturned"}
    /\ todo # <<>> /\ Head(todo) = "async"
    /\ todo' = Tail(todo)
    /\ main' = "async"
    /\ \E mc \in 1..MaxConcurrent :
          /\ max_concurrent' = mc
          /\ semValue' = mc
    /\ semWaiters' = <<>>
    /\ task' = [i \in Idx |-> "created"]
    /\ asyncResults' = <<>>
    /\ overtaken' = FALSE
    /\ stage' = [i \in Idx |-> "idle"]
    /\ summary' = [i \in Idx |-> NoText]
    /\ sentiment' = [i \in Idx |-> NoText]
    /\ returned' = [i \in Idx |-> NoResult]
    /\ raised' = [i \in Idx |-> NoError]
    /\ calls' = [i \in Idx |-> <<>>]
    /\ printed' = [i \in Idx |-> {}]
    /\ UNCHANGED <<InputVars, SeqVars>>

\* Variant of lines 113-114 whose slot test is off by one.
TaskStartOffByOne(i) ==
    /\ main = "async"
    /\ task[i] = "created"
    /\ \A j \in 1..(i - 1) : task[j] # "created"
    /\ IF semValue >= 0
          THEN /\ semValue' = semValue - 1
               /\ task' = [task EXCEPT ![i] = "running"]
               /\ stage' = [stage EXCEPT ![i] = "primary"]
               /\ semWaiters' = semWaiters
          ELSE /\ semWaiters' = Append(semWaiters, i)
               /\ task' = [task EXCEPT ![i] = "waiting"]
               /\ UNCHANGED <<semValue, stage>>
    /\ UNCHANGED <<InputVars, todo, main, SeqVars, asyncResults, max_concurrent,
                   overtaken, summary, sentiment, returned, raised, calls, printed>>

\* Lines 113-114, first step of task i.  The event loop runs the tasks'
\* first steps in the order gather created them.  A free slot is taken
\* and summarize_article is handed to a thread (line 106); otherwise the
\* task queues on the semaphore.
TaskStart(i) ==
    /\ main = "async"
    /\ task[i] = "created"
    /\ \A j \in 1..(i - 1) : task[j] # "created"
    /\ IF semValue > 0
          THEN /\ semValue' = semValue - 1
               /\ task' = [task EXCEPT ![i] = "running"]
               /\ stage' = [stage EXCEPT ![i] = "primary"]
               /\ semWaiters' = semWaiters
          ELSE /\ semWaiters' = Append(semWaiters, i)
               /\ task' = [task EXCEPT ![i] = "waiting"]
               /\ UNCHANGED <<semValue, stage>>
    /\ UNCHANGED <<InputVars, todo, main, SeqVars, asyncResults, max_concurrent,
                   overtaken, summary, sentiment, returned, raised, calls, printed>>

\* Lines 113-114, a task that was handed a slot resumes and hands
\* summarize_article to a thread.
TaskResume(i) ==
    /\ main = "async"
    /\ task[i] = "woken"
    /\ task' = [task EXCEPT ![i] = "running"]
    /\ stage' = [stage EXCEPT ![i] = "primary"]
    /\ UNCHANGED <<InputVars, todo, main, SeqVars, asyncResults, max_concurrent,
                   overtaken, semValue, semWaiters, summary, sentiment, returned,
                   raised, calls, printed>>

\* Lines 113-114, the thread of task i has ended (summarize_article
\* returned or raised): the task resumes on the event loop, leaves the
\* "async with" block and ends with that result or exception.  The resume
\* is queued behind the first steps of all tasks.
TaskFinish(i) ==
    /\ main = "async"
    /\ task[i] = "running"
    /\ stage[i] \in {"returned", "raised"}
    /\ \A j \in Idx : task[j] # "created"
    /\ Release([task EXCEPT ![i] = "finished"])
    /\ overtaken' = (overtaken \/ \E j \in 1..(i - 1) : task[j] # "finished")
    /\ UNCHANGED <<InputVars, todo, main, SeqVars, asyncResults, max_concurrent,
                   PipelineVars>>

\* Variant of line 117 without return_exceptions=True: gather is over at
\* the first task that ends with an exception.
GatherFirstException ==
    \/ \A i \in Idx : task[i] = "finished"
    \/ \E i \in Idx : task[i] = "finished" /\ stage[i] = "raised"

\* Line 117: gather(*tasks, return_exceptions=True) is complete.
GatherDone == \A i \in Idx : task[i] = "finished"

\* Variant of lines 112-117 in which every task works on the article the
\* loop variable was last bound to.
GatheredLastArticle(n) ==
    [k \in 1..n |->
        IF stage[N] = "raised"
           THEN [exception |-> TRUE, error |-> raised[N], value |-> NoResult]
           ELSE [exception |-> FALSE, error |-> NoError, value |-> returned[N]]]

\* Variant of line 117 that lists the values last task first.
GatheredReversed(n) ==
    [k \in 1..n |->
        IF stage[n + 1 - k] = "raised"
           THEN [exception |-> TRUE, error |-> raised[n + 1 - k], value |-> NoResult]
           ELSE [exception |-> FALSE, error |-> NoError, value |-> returned[n + 1 - k]]]

\* Line 117: the list gather yields, by input position: a task's result
\* or, with return_exceptions=True, its exception.
RECURSIVE Gathered(_)
Gathered(n) ==
    IF n = 0 THEN <<>>
    ELSE Append(Gathered(n - 1),
                IF stage[n] = "raised"
                   THEN [exception |-> TRUE, error |-> raised[n], value |-> NoResult]
                   ELSE [exception |-> FALSE, error |-> NoError, value |-> returned[n]])

\* Variant of line 120 that filters nothing: an exception's place in the
\* list is kept.
FilterNothing(rs) ==
    [k \in DOMAIN rs |-> rs[k].value]

\* Line 120: [r for r in results if not isinstance(r, Exception)]
RECURSIVE FilterExceptions(_)
FilterExceptions(rs) ==
    IF rs = <<>> THEN <<>>
    ELSE IF Head(rs).exception
            THEN FilterExceptions(Tail(rs))
            ELSE <<Head(rs).value>> \o FilterExceptions(Tail(rs))

\* Variant of lines 117-120 in which an exception among the gathered
\* values takes the place of the list.
AsyncReturnPropagates ==
    /\ main = "async"
    /\ GatherDone
    /\ asyncResults' = IF \E i \in Idx : stage[i] = "raised"
                          THEN <<>>
                          ELSE FilterExceptions(Gathered(N))
    /\ main' = "asyncReturned"
    /\ UNCHANGED <<InputVars, todo, SeqVars, task, semValue, semWaiters,
                   max_concurrent, overtaken, PipelineVars>>

\* Lines 117-120.
AsyncReturn ==
    /\ main = "async"
    /\ GatherDone
    /\ asyncResults' = FilterExceptions(Gathered(N))
    /\ main' = "asyncReturned"
    /\ UNCHANGED <<InputVars, todo, SeqVars, task, semValue, semWaiters,
                   max_concurrent, overtaken, PipelineVars>>

\* ------------------------------------------------------- specification
Next ==
    \/ ProcessArticles
    \/ SeqCall
    \/ SeqAppend
    \/ SeqExcept
    \/ SeqReturn
    \/ ProcessArticlesAsync
    \/ \E i \in Idx : TaskStart(i)
    \/ \E i \in Idx : TaskResume(i)
    \/ \E i \in Idx : TaskFinish(i)
    \/ AsyncReturn
    \/ \E i \in Idx : CallPrimary(i)
    \/ \E i \in Idx : CallFallback(i)
    \/ \E i \in Idx : CallSentiment(i)

Spec == Init /\ [][Next]_vars

SpecEq == InitEq /\ [][Next]_vars

\* The same program under fair scheduling: the event loop runs a task that
\* is ready, a started thread runs on, and a provider call returns or
\* raises; so a step that can be taken is not put off forever.
SpecLive == Init /\ [][Next]_vars /\ WF_vars(Next)

\* ------------------------------------ gateway calls from worker threads
\* The threads asyncio.to_thread runs summarize_article in (line 106) call
\* the gateway concurrently.  Nothing of the batch changes meanwhile.
BatchVars == <<articles, script, todo, main, SeqVars, AsyncVars, PipelineVars>>

InitGateway ==
    /\ articles = <<>>
    /\ Fresh(0)
    /\ script = <<>>
    /\ max_concurrent = 0
    /\ todo = <<>>
    /\ main = "idle"

\* Time passes.
Tick ==
    /\ now < StartTime + MaxTime
    /\ now' = now + 1
    /\ UNCHANGED <<worker, rate_lock, last_call, tracker_lock, requests,
                   total_cost, started, completed, budget, BatchVars>>

\* The wait the rate limiter asks for: the rest of the interval if less than
\* the interval has elapsed since the provider's last call, nothing otherwise.
WakeTime(p) ==
    LET elapsed == now - last_call[p]
    IN  IF elapsed < Interval(p) THEN now + (Interval(p) - elapsed) ELSE now

\* Variant: a caller enters the spacing section whoever is in it.
RateEnterUnserialized(t, p) ==
    /\ worker[t].pc = "idle"
    /\ started < MaxRequests
    /\ rate_lock' = [rate_lock EXCEPT ![p] = t]
    /\ started' = started + 1
    /\ worker' = [worker EXCEPT ![t] = [IdleWorker EXCEPT !.pc = "sleep", !.provider = p,
                                                          !.wake = WakeTime(p)]]
    /\ UNCHANGED <<now, last_call, tracker_lock, requests, total_cost, completed,
                   budget, BatchVars>>

\* ask_openai / ask_cohere is called: one caller at a time enters the
\* provider's spacing section, reads the last call time and computes its wait.
RateEnter(t, p) ==
    /\ worker[t].pc = "idle"
    /\ started < MaxRequests
    /\ rate_lock[p] = 0
    /\ rate_lock' = [rate_lock EXCEPT ![p] = t]
    /\ started' = started + 1
    /\ worker' = [worker EXCEPT ![t] = [IdleWorker EXCEPT !.pc = "sleep", !.provider = p,
                                                          !.wake = WakeTime(p)]]
    /\ UNCHANGED <<now, last_call, tracker_lock, requests, total_cost, completed,
                   budget, BatchVars>>

\* The wait is over (a sleep lasts at least as long as asked): the call is
\* admitted, the last call time becomes the current time, and the caller
\* leaves the spacing section.
RateUpdate(t) ==
    /\ worker[t].pc = "sleep"
    /\ now >= worker[t].wake
    /\ LET p == worker[t].provider
       IN  /\ last_call' = [last_call EXCEPT ![p] = now]
           /\ rate_lock' = [rate_lock EXCEPT ![p] = IF rate_lock[p] = t THEN 0 ELSE rate_lock[p]]
    /\ worker' = [worker EXCEPT ![t].pc = "backend", ![t].wake = 0]
    /\ UNCHANGED <<now, tracker_lock, requests, total_cost, started, completed,
                   budget, BatchVars>>

\* The backend answers: a text, whose tokens are counted and priced, or an
\* error, which leaves the gateway call as a Provider error.
Backend(t) ==
    /\ worker[t].pc = "backend"
    /\ \/ \E tk \in TokenCounts :
             worker' = [worker EXCEPT ![t].pc = "track",
                                      ![t].pending = PricedRequest(worker[t].provider, tk[1], tk[2])]
       \/ worker' = [worker EXCEPT ![t] = IdleWorker]
    /\ UNCHANGED <<now, rate_lock, last_call, tracker_lock, requests,
                   total_cost, started, completed, budget, BatchVars>>

\* Variant: track_request runs unprotected.
TrackEnterUnprotected(t) ==
    /\ worker[t].pc = "track"
    /\ tracker_lock' = t
    /\ requests' = Append(requests, worker[t].pending)
    /\ worker' = [worker EXCEPT ![t].pc = "store", ![t].seen = total_cost]
    /\ UNCHANGED <<now, rate_lock, last_call, total_cost, started, completed,
                   budget, BatchVars>>

\* track_request, one caller at a time: the request is appended to the log
\* and the running total is read.
TrackEnter(t) ==
    /\ worker[t].pc = "track"
    /\ tracker_lock = 0
    /\ tracker_lock' = t
    /\ requests' = Append(requests, worker[t].pending)
    /\ worker' = [worker EXCEPT ![t].pc = "store", ![t].seen = total_cost]
    /\ UNCHANGED <<now, rate_lock, last_call, total_cost, started, completed,
                   budget, BatchVars>>

\* track_request: the running total is written back, increased by the
\* cost, and the cost is returned.
TrackStore(t) ==
    /\ worker[t].pc = "store"
    /\ total_cost' = worker[t].seen + worker[t].pending.cost
    /\ tracker_lock' = IF tracker_lock = t THEN 0 ELSE tracker_lock
    /\ completed' = completed + 1
    /\ worker' = [worker EXCEPT ![t] = IdleWorker]
    /\ UNCHANGED <<now, rate_lock, last_call, requests, started, budget, BatchVars>>

\* Variant: a total that has reached the ceiling fails the check.
BudgetOutcomeAtCeiling(total, ceiling) == IF total >= ceiling THEN "BudgetExceeded" ELSE "ok"

\* check_budget(ceiling): fails when the running total exceeds the ceiling.
BudgetOutcome(total, ceiling) == IF total > ceiling THEN "BudgetExceeded" ELSE "ok"

CheckBudget(t, ceiling) ==
    /\ worker[t].pc = "idle"
    /\ tracker_lock = 0
    /\ budget' = [ceiling |-> ceiling, outcome |-> BudgetOutcome(total_cost, ceiling)]
    /\ UNCHANGED <<now, worker, rate_lock, last_call, tracker_lock,
                   requests, total_cost, started, completed, BatchVars>>

NextGateway ==
    \/ Tick
    \/ \E t \in Threads, p \in Providers : RateEnter(t, p)
    \/ \E t \in Threads : RateUpdate(t)
    \/ \E t \in Threads : Backend(t)
    \/ \E t \in Threads : TrackEnter(t)
    \/ \E t \in Threads : TrackStore(t)
    \/ \E t \in Threads, ceiling \in Ceilings : CheckBudget(t, ceiling)

SpecGateway == InitGateway /\ [][NextGateway]_vars

\* ============================================================ properties
Range(seq) == {seq[k] : k \in DOMAIN seq}

\* What the providers saw (the call log), independent of the pipeline's
\* own variables.
IsSentimentCall(c) == c.prompt = <<>> \/ Head(c.prompt) = Head(SentimentPrompt(NoText))
IsSummaryCall(c) == ~IsSentimentCall(c)

PrimaryFailed(i) ==
    /\ Len(calls[i]) >= 1
    /\ calls[i][1].provider = "openai" /\ IsSummaryCall(calls[i][1])
    /\ calls[i][1].outcome # "ok"

SecondaryAnswered(i) ==
    /\ Len(calls[i]) >= 2
    /\ calls[i][2].provider = "cohere" /\ IsSummaryCall(calls[i][2])

\* Stage A produced a text for article i / failed on both providers.
StageASucceeded(i) == \E k \in DOMAIN calls[i] : IsSummaryCall(calls[i][k]) /\ calls[i][k].outcome = "ok"
StageAFailed(i) == PrimaryFailed(i) /\ SecondaryAnswered(i) /\ calls[i][2].outcome # "ok"
StageAText(i) == (CHOOSE c \in Range(calls[i]) : IsSummaryCall(c) /\ c.outcome = "ok").text

SentimentCalls(i) == {k \in DOMAIN calls[i] : IsSentimentCall(calls[i][k])}
SentimentFailed(i) == \E k \in SentimentCalls(i) : calls[i][k].outcome # "ok"

\* The result the call log of article i calls for, once its sentiment call is made.
ExpectedResult(i) ==
    LET last == calls[i][Len(calls[i])]
    IN  SummaryResult(articles[i], StageAText(i),
                      IF last.outcome = "ok" THEN last.text ELSE Placeholder)

PipelineDone(i) == StageAFailed(i) \/ (StageASucceeded(i) /\ SentimentCalls(i) # {})

\* The successes among the first n articles, in input order.
RECURSIVE ExpectedList(_)
ExpectedList(n) ==
    IF n = 0 THEN <<>>
    ELSE IF StageASucceeded(n) /\ SentimentCalls(n) # {}
            THEN Append(ExpectedList(n - 1), ExpectedResult(n))
            ELSE ExpectedList(n - 1)

\* C1: when the primary summary call fails and the secondary summary call
\* succeeds, the summary is exactly the secondary provider's text, the
\* pipeline goes on to the sentiment stage (it does not raise), the sentiment
\* prompt is built from that text, and the returned result carries it.
C1_FallbackSummary ==
    \A i \in Idx :
        (PrimaryFailed(i) /\ SecondaryAnswered(i) /\ calls[i][2].outcome = "ok") =>
            /\ summary[i] = calls[i][2].text
            /\ summary[i] = Reply("cohere", SummaryPrompt(articles[i]))
            /\ stage[i] \in {"sentiment", "returned"}
            /\ raised[i] = NoError
            /\ stage[i] = "returned" =>
                  /\ Len(calls[i]) = 3
                  /\ calls[i][3].prompt = SentimentPrompt(calls[i][2].text)
                  /\ returned[i].summary = calls[i][2].text

C1_Witness ==
    \E i \in Idx :
        /\ PrimaryFailed(i) /\ SecondaryAnswered(i) /\ calls[i][2].outcome = "ok"
        /\ stage[i] = "returned"
        /\ returned[i].summary = Reply("cohere", SummaryPrompt(articles[i]))

\* C2: when both summary calls fail, summarize_article raises the second
\* failure to its caller, returns no result and no substituted summary,
\* issues no sentiment call, and the batch output holds no entry for the
\* article.
C2_DoubleFailurePropagates ==
    \A i \in Idx :
        StageAFailed(i) =>
            /\ stage[i] = "raised"
            /\ raised[i] \in ErrorKinds
            /\ returned[i] = NoResult
            /\ summary[i] = NoText
            /\ Len(calls[i]) = 2
            /\ SentimentCalls(i) = {}
            /\ \A r \in Range(results) \cup Range(asyncResults) : r.title # articles[i].title

C2_Witness ==
    \E i \in Idx :
        /\ StageAFailed(i)
        /\ stage[i] = "raised"
        /\ main \in {"seqReturned", "asyncReturned"}

\* C3: when Stage A produced a summary and the sentiment call fails, the
\* pipeline returns (it does not raise) a result whose sentiment is the
\* fixed placeholder and whose summary is the Stage A text; the failed
\* sentiment call is the article's last call (no other provider, no retry).
C3_SentimentPlaceholder ==
    \A i \in Idx :
        SentimentFailed(i) =>
            /\ StageASucceeded(i)
            /\ stage[i] = "returned"
            /\ raised[i] = NoError
            /\ returned[i].sentiment = <<"Unable to analyze sentiment">>
            /\ returned[i].summary = StageAText(i)
            /\ returned[i].title = articles[i].title
            /\ Cardinality(SentimentCalls(i)) = 1
            /\ SentimentCalls(i) = {Len(calls[i])}

C3_Witness ==
    \E i \in Idx :
        /\ SentimentFailed(i)
        /\ returned[i] = SummaryResult(articles[i], StageAText(i), Placeholder)

\* Pipeline executions started and not yet finished.
InFlight == {i \in Idx : stage[i] \in {"primary", "fallback", "sentiment"}}

\* Tasks inside "async with semaphore".
SlotHolders == {i \in Idx : task[i] \in {"woken", "running"}}

\* C4: in bounded-concurrency mode the number of pipeline executions that
\* have started and not finished never exceeds max_concurrent; neither does
\* the number of tasks holding a slot.
C4_ConcurrencyBound ==
    main = "async" =>
        /\ Cardinality(InFlight) <= max_concurrent
        /\ Cardinality(SlotHolders) <= max_concurrent

C4_Witness ==
    /\ main = "async"
    /\ Cardinality(InFlight) = max_concurrent
    /\ semWaiters # <<>>
    /\ \E i \in Idx : task[i] = "finished" /\ stage[i] = "raised"

\* C5: process_articles returns exactly the results of the articles whose
\* pipeline succeeded, in input order, and it has run the pipeline of every
\* article, the ones after a failing article included.
C5_SequentialResults ==
    /\ main = "seq" => results = ExpectedList(cur - 1)
    /\ main = "seqReturned" =>
          /\ \A i \in Idx : PipelineDone(i)
          /\ results = ExpectedList(N)

C5_Witness ==
    /\ main = "seqReturned"
    /\ N = 3
    /\ StageASucceeded(1) /\ StageAFailed(2) /\ StageASucceeded(3)
    /\ results = <<ExpectedResult(1), ExpectedResult(3)>>

\* C6: process_articles_async has returned only when every article's
\* pipeline execution has ended and its task is over: none is waiting for
\* a slot, holding one, or in flight.
C6_ReturnsAfterAll ==
    main = "asyncReturned" =>
        /\ \A i \in Idx : task[i] = "finished" /\ stage[i] \in {"returned", "raised"}
        /\ InFlight = {}
        /\ semWaiters = <<>>

C6_Witness ==
    /\ main = "asyncReturned"
    /\ N > max_concurrent
    /\ \E i \in Idx : stage[i] = "raised"
    /\ \E i \in Idx : stage[i] = "returned"

\* C7: in bounded-concurrency mode a failed article takes no other article
\* down: a task ends only when its own pipeline has run to the end, and at
\* the return every article has done so, every success is in the returned
\* collection and no failed article is.
C7_FailureIsolated ==
    /\ \A i \in Idx : task[i] = "finished" => PipelineDone(i)
    /\ main = "asyncReturned" =>
          /\ \A i \in Idx : PipelineDone(i)
          /\ \A i \in Idx : StageASucceeded(i) => ExpectedResult(i) \in Range(asyncResults)
          /\ \A i \in Idx : StageAFailed(i) =>
                \A r \in Range(asyncResults) : r.title # articles[i].title

\* A failure ahead of a waiting sibling and one next to an in-flight sibling.
C7_Witness ==
    /\ main = "asyncReturned"
    /\ N = 3 /\ max_concurrent = 2
    /\ StageAFailed(1) /\ StageASucceeded(2) /\ StageASucceeded(3)
    /\ {ExpectedResult(2), ExpectedResult(3)} = Range(asyncResults)

\* Titles of the articles a returned collection leaves out.
Dropped(rs) == {articles[i].title : i \in Idx} \ {r.title : r \in Range(rs)}

\* C8: over the same articles and the same call outcomes, the concurrent
\* run with max_concurrent = 1 returns the same results (same summaries and
\* sentiments) and drops the same articles as the sequential run.
C8_SequentialEquivalence ==
    (main = "asyncReturned" /\ max_concurrent = 1) =>
        /\ Range(asyncResults) = Range(results)
        /\ Len(asyncResults) = Len(results)
        /\ Dropped(asyncResults) = Dropped(results)

C8_Witness ==
    /\ main = "asyncReturned" /\ max_concurrent = 1
    /\ N = 2
    /\ Len(results) = 1 /\ Len(asyncResults) = 1
    /\ results[1].sentiment = Placeholder

\* The scripted outcome of the k-th call made for article i.
ScriptedOutcome(i, k) ==
    script[i][IF k = 1 THEN "openai_summary"
              ELSE IF IsSentimentCall(calls[i][k]) THEN "cohere_sentiment"
              ELSE "cohere_summary"]

\* C9 (as claimed): a Configuration error raised by a provider call is never
\* handled: summarize_article raises it, no later call is made for the
\* article (no fallback, no placeholder), and the batch stops at that
\* article instead of dropping it and returning a collection.
C9_ConfigurationErrorAborts ==
    \A i \in Idx \cap DOMAIN script : \A k \in DOMAIN calls[i] :
        ScriptedOutcome(i, k) = "Configuration" =>
            /\ stage[i] = "raised"
            /\ raised[i] = "Configuration"
            /\ k = Len(calls[i])
            /\ main \notin {"seqReturned", "asyncReturned"}
            /\ main = "seq" => cur = i
            /\ main = "async" => task[i] # "finished"

\* Articles for which the batch printed that it dropped them (line 68).
Diagnosed == {i \in Idx : "Failed to process article" \in printed[i]}

\* C10 (as claimed): when a batch returns, in either mode, one failure
\* diagnostic has been recorded per dropped article.
C10_DroppedAreDiagnosed ==
    /\ main = "seqReturned" => Cardinality(Diagnosed) = N - Len(results)
    /\ main = "asyncReturned" => Cardinality(Diagnosed) = N - Len(asyncResults)

\* C11: every sentiment call of an article comes right after a summary call
\* of the same article that returned a text, and its prompt is the sentiment
\* prompt built from that text; until then the article has no sentiment call.
C11_SummaryBeforeSentiment ==
    \A i \in Idx :
        /\ \A k \in SentimentCalls(i) :
              /\ k >= 2
              /\ IsSummaryCall(calls[i][k - 1])
              /\ calls[i][k - 1].outcome = "ok"
              /\ calls[i][k].prompt = SentimentPrompt(calls[i][k - 1].text)
              /\ calls[i][k].provider = "cohere"
        /\ stage[i] \in {"idle", "primary", "fallback", "raised"} => SentimentCalls(i) = {}

\* Two pipelines in flight at once: one past its sentiment call, reached
\* through the fallback, the other still in Stage A.
C11_Witness ==
    /\ main = "async"
    /\ \E i, j \in Idx :
          /\ i # j
          /\ SentimentCalls(i) = {3}
          /\ calls[i][3].prompt = SentimentPrompt(Reply("cohere", SummaryPrompt(articles[i])))
          /\ task[i] = "running" /\ task[j] = "running"
          /\ stage[j] = "fallback"

\* The collection the batch returned.
ReturnedList == IF main = "seqReturned" THEN results ELSE asyncResults
Succeeded == {i \in Idx : StageASucceeded(i)}

\* C15: in both modes the batch returns a collection, never an error: it
\* holds exactly the results of the articles whose pipeline succeeded, one
\* each, and it is empty when every pipeline failed.
C15_SuccessfulSubset ==
    main \in {"seqReturned", "asyncReturned"} =>
        /\ Range(ReturnedList) = {ExpectedResult(i) : i \in Succeeded}
        /\ Len(ReturnedList) = Cardinality(Succeeded)
        /\ (\A i \in Idx : StageAFailed(i)) => ReturnedList = <<>>

C15_Witness ==
    /\ main = "asyncReturned"
    /\ N = 3
    /\ \A i \in Idx : StageAFailed(i) /\ raised[i] \in ErrorKinds
    /\ asyncResults = <<>>

\* C16: no step of summarize_article, on any of its paths, and no step of
\* either batch changes an article of the input: all six fields of every
\* article keep their values.
C16_ArticlesUnchanged ==
    [][/\ DOMAIN articles' = DOMAIN articles
       /\ \A i \in DOMAIN articles :
             /\ articles'[i].title = articles[i].title
             /\ articles'[i].description = articles[i].description
             /\ articles'[i].content = articles[i].content
             /\ articles'[i].url = articles[i].url
             /\ articles'[i].source = articles[i].source
             /\ articles'[i].published_at = articles[i].published_at]_vars

\* A batch that went down three of the paths: primary success, fallback
\* success with a failed sentiment call, double failure.
C16_Witness ==
    /\ main \in {"seqReturned", "asyncReturned"}
    /\ N = 3
    /\ \E i, j, k \in Idx :
          /\ calls[i][1].outcome = "ok" /\ stage[i] = "returned"
          /\ PrimaryFailed(j) /\ SentimentFailed(j)
          /\ StageAFailed(k)
          /\ articles[i] = Article(i) /\ articles[j] = Article(j) /\ articles[k] = Article(k)

SummaryCallsTo(i, provider) ==
    {k \in DOMAIN calls[i] : IsSummaryCall(calls[i][k]) /\ calls[i][k].provider = provider}

\* C18: the secondary summary call of an article is its second call, made
\* after its primary summary call failed and with the same prompt; after a
\* primary success there is none; each of the three calls is made at most
\* once, so an article has at most three provider calls.
C18_FallbackOnlyAfterFailure ==
    \A i \in Idx :
        /\ Len(calls[i]) <= 3
        /\ SummaryCallsTo(i, "openai") \subseteq {1}
        /\ SummaryCallsTo(i, "cohere") \subseteq {2}
        /\ Cardinality(SentimentCalls(i)) <= 1
        /\ calls[i] # <<>> => SummaryCallsTo(i, "openai") = {1}
        /\ \A k \in SummaryCallsTo(i, "cohere") :
              /\ calls[i][1].outcome = "error"
              /\ calls[i][k].prompt = calls[i][1].prompt
        /\ (calls[i] # <<>> /\ calls[i][1].outcome = "ok") => SummaryCallsTo(i, "cohere") = {}

C18_Witness ==
    \E i, j \in Idx :
        /\ Len(calls[i]) = 3 /\ SummaryCallsTo(i, "cohere") = {2}
        /\ calls[i][2].prompt = SummaryPrompt(articles[i])
        /\ Len(calls[j]) = 2 /\ calls[j][1].outcome = "ok" /\ stage[j] = "returned"

\* The input articles a result can have come from.
Owners(r) ==
    {i \in Idx : /\ r.title = articles[i].title
                 /\ r.source = articles[i].source
                 /\ r.url = articles[i].url
                 /\ r.published_at = articles[i].published_at}

Texts(i) == {calls[i][k].text : k \in {k \in DOMAIN calls[i] : calls[i][k].outcome = "ok"}}

\* C19: every result process_articles_async returns has the title, source,
\* url and published_at of one input article, its summary and sentiment are
\* texts the calls made for that article returned (or the placeholder), and
\* no two results come from the same article.
C19_ResultsBelongToArticles ==
    main = "asyncReturned" =>
        /\ \A k \in DOMAIN asyncResults :
              LET r == asyncResults[k]
              IN  /\ Cardinality(Owners(r)) = 1
                  /\ \A i \in Owners(r) :
                        /\ r.summary \in Texts(i) /\ r.summary = StageAText(i)
                        /\ r.sentiment \in Texts(i) \cup {Placeholder}
                        /\ r = ExpectedResult(i)
        /\ \A k, l \in DOMAIN asyncResults : k # l => Owners(asyncResults[k]) # Owners(asyncResults[l])

\* Three articles, two pipelines at a time, all three succeed on different
\* paths.
C19_Witness ==
    /\ main = "asyncReturned"
    /\ N = 3 /\ max_concurrent = 2
    /\ Len(asyncResults) = 3
    /\ calls[1][1].outcome = "ok"
    /\ PrimaryFailed(2)
    /\ SentimentFailed(3)

\* C17: under fair scheduling, with every provider call returning or
\* raising, a concurrent batch leads to its return, and by then every
\* article has had a slot and has run its pipeline to the end: none is left
\* waiting.
C17_BatchTerminates ==
    (main = "async") ~>
        (/\ main = "asyncReturned"
         /\ \A i \in Idx : task[i] = "finished" /\ PipelineDone(i)
         /\ semWaiters = <<>>)

\* One slot, two failures ahead of the third article, which waited, ran
\* and succeeded.
C17_Witness ==
    /\ main = "asyncReturned"
    /\ N = 3 /\ max_concurrent = 1
    /\ StageAFailed(1) /\ StageAFailed(2) /\ StageASucceeded(3)
    /\ Len(asyncResults) = 1

\* C20: the collection process_articles_async returns lists the successful
\* articles in input order, whatever order their tasks ended in.
C20_AsyncKeepsInputOrder ==
    main = "asyncReturned" =>
        /\ asyncResults = ExpectedList(N)
        /\ \A k, l \in DOMAIN asyncResults :
              k < l => \A i \in Owners(asyncResults[k]) : \A j \in Owners(asyncResults[l]) : i < j

\* Every article succeeded and some task ended before one created earlier.
C20_Witness ==
    /\ main = "asyncReturned"
    /\ overtaken
    /\ N = 3
    /\ \A i \in Idx : StageASucceeded(i)
    /\ asyncResults = <<ExpectedResult(1), ExpectedResult(2), ExpectedResult(3)>>

\* ------------------------------------------------------------- gateway
\* The callers inside provider p's spacing section: between the read of
\* the last call time and its update.
RateSection(p) == {t \in Threads : worker[t].pc = "sleep" /\ worker[t].provider = p}

\* Caller t's call to provider p is admitted in this step.
Admitted(t, p) ==
    /\ worker[t].pc = "sleep"
    /\ worker[t].provider = p
    /\ worker'[t].pc = "backend"

\* C12: whatever the interleaving of the threads, at most one caller at a
\* time is between the read and the update of a provider's last call time,
\* and a call to a provider is admitted no sooner than the provider's
\* interval after the previous call to it was.
C12_CallsSpaced ==
    /\ [](\A p \in Providers : Cardinality(RateSection(p)) <= 1)
    /\ [][\A p \in Providers : \A t \in Threads :
             Admitted(t, p) => now - last_call[p] >= Interval(p)]_vars

\* Two calls to cohere went through, the second one as soon as the interval
\* after the first allowed.
C12_Witness ==
    /\ Len(requests) = 2
    /\ \A k \in DOMAIN requests : requests[k].provider = "cohere"
    /\ last_call["cohere"] = StartTime + Interval("cohere")

\* The sum of the costs of the entries of a log.
RECURSIVE SumCost(_)
SumCost(log) == IF log = <<>> THEN 0 ELSE log[1].cost + SumCost(Tail(log))

\* No track_request call is under way.
TrackerQuiet == \A t \in Threads : worker[t].pc # "store"

\* C13: whenever no track_request call is under way, whatever calls ran
\* before and however they interleaved, the running total is the sum of the
\* costs of the log's entries and the log has one entry per completed call.
C13_TotalIsSumOfLog ==
    TrackerQuiet =>
        /\ total_cost = SumCost(requests)
        /\ Len(requests) = completed

\* Two threads had a request each tracked, one per provider.
C13_Witness ==
    /\ TrackerQuiet
    /\ completed = 2
    /\ {requests[k].provider : k \in DOMAIN requests} = Providers
    /\ total_cost = Cost("openai", 100, 500) + Cost("cohere", 100, 500)

\* C14: a check_budget call fails with Budget-Exceeded exactly when the
\* running total is strictly greater than the ceiling, succeeds otherwise
\* (a total equal to the ceiling included), and either way leaves the log
\* and the running total as they were.
C14_BudgetCheck ==
    [][budget' # budget =>
          /\ budget'.outcome \in {"ok", "BudgetExceeded"}
          /\ budget'.outcome = "BudgetExceeded" <=> total_cost > budget'.ceiling
          /\ requests' = requests
          /\ total_cost' = total_cost]_vars

\* A check against a ceiling the total has exactly reached succeeded.
C14_Witness ==
    /\ budget.outcome = "ok"
    /\ requests # <<>>
    /\ TrackerQuiet
    /\ total_cost = budget.ceiling

====
